---- MODULE Spec2Model ----
(***************************************************************************)
(* Side-input materialization of sdks/go/pkg/beam/core/runtime/exec/       *)
(* input.go: the input registry, iterValue (Sequential Iterator),          *)
(* reIterValue (Re-iterable Factory) and multiMapValue (Keyed Multimap).   *)
(***************************************************************************)
EXTENDS Integers, Sequences, FiniteSets, TLC

\* ---------------------------------------------------------------- bounds
MaxRecs == 2
MaxCalls == 3
MaxCursors == 2

\* "We expect 1-3 out parameters" (input.go:166)
MaxSlots == 3
\* the nil Stream held in iterValue.cur (input.go:104-105)
Nil == 0

\* ---------------------------------------------------------------- data
EventTimeType == "EventTime"
SlotTypes == {EventTimeType, "Key", "Value"}

\* FullValue records delivered by a Stream: Elm, Elm2, Timestamp.
Elements ==
  { [Elm |-> "7", Elm2 |-> "x", Timestamp |-> "T1"],
    [Elm |-> "8", Elm2 |-> "y", Timestamp |-> "T2"] }

SeqsUpTo(S, n) == UNION {[1..k -> S] : k \in 0..n}

\* the parameter types funcx.UnfoldIter extracts from an iterator type
Shapes == SeqsUpTo(SlotTypes, MaxSlots) \ {<<>>}

\* a function type: an iterator type carries its out-parameter types
IterType(types) == [kind |-> "iter", types |-> types]
IllegalType == [kind |-> "illegal", types |-> <<>>]
\* a re-iterable type func() func(...) bool and a multimap type
\* func(K) func(...) bool, each carrying the out-parameter types of its iterator
ReIterType(types) == [kind |-> "reiter", types |-> types]
MultiMapType(types) == [kind |-> "multimap", types |-> types]
\* t.Out(0) of a re-iterable or multimap type: the iterator type it returns
Out0(t) == IterType(t.types)
NoFactory == [kind |-> "none", t |-> IllegalType, s |-> "none"]

\* funcx.UnfoldIter(t): (types, ok); an iterator has at least one out parameter
UnfoldIter(t) == [ok |-> t.kind = "iter" /\ t.types \in Shapes, types |-> t.types]
\* funcx.IsReIter(t): func() I with I an iterator type
IsReIter(t) == t.kind = "reiter" /\ UnfoldIter(Out0(t)).ok
\* funcx.UnfoldMultiMap(t): (types, ok), types[0] the key type of func(K) I
UnfoldMultiMap(t) ==
  [ok |-> t.kind = "multimap" /\ UnfoldIter(Out0(t)).ok, types |-> <<"Key">> \o t.types]

\* a value stored through an out pointer: reflect.ValueOf of a typed value
Unset == [typ |-> "unset", val |-> "unset"]
ValueOf(typ, val) == [typ |-> typ, val |-> val]

\* exec.Convert(value, to): the value represented at the declared type
Convert(val, to) == ValueOf(to, val)

VARIABLES
  recs,      \* ReStream id -> the records the stream serves
  cursors,   \* every Stream opened so far: [s, pos, open]
  iters,     \* the iterValue objects: [s, types, cur]
  out,       \* per iterator, what the callable's out pointers point at
  calls,     \* per iterator, the callable's results since the last Init
  leaks,     \* per iterator, Inits that overwrote a cursor still held
  inited,    \* per iterator, whether Init has been called on it
  asked,     \* per iterator, the key of the multimap lookup that made it
  adapterAsks, \* NewKeyedIterable calls made by the last multimap lookup
  ret,       \* the outcome of the last operation
  inputs,    \* the registry map: type -> maker, "none" when absent
  inputsMu,  \* the goroutine holding the registry lock, "free" when unlocked
  pc,        \* per goroutine, where it is in the registry function it runs
  call,      \* per goroutine, the function it runs and its arguments
  seen,      \* per goroutine, what its read of the map returned
  lastDone,  \* per type, the makers of the last two completed registrations
  factory    \* the reIterValue or multiMapValue object, if one was made

iterVars == <<recs, cursors, iters, out, calls, leaks, inited, asked, adapterAsks, ret, factory>>
regVars == <<inputs, inputsMu, pc, call, seen, lastDone>>
vars == <<recs, cursors, iters, out, calls, leaks, inited, asked, adapterAsks, ret,
          inputs, inputsMu, pc, call, seen, lastDone, factory>>

\* ------------------------------------------------- ReStream / Stream
NoElm == [Elm |-> "", Elm2 |-> "", Timestamp |-> ""]

\* the records a ReStream serves; a keyed stream of a key state does not hold
\* serves none
StreamRecs(s) == IF s \in DOMAIN recs THEN recs[s] ELSE <<>>

\* ReStream.Open(): a fresh Stream positioned before the first record
OpenStream(s) == [s |-> s, pos |-> 0, open |-> TRUE]

\* Stream.Read(): the next record, io.EOF after the last one, or a failure
\* (a failure is possible on every read; a closed Stream only fails)
Read(c) ==
  IF ~c.open THEN {[err |-> "closed", elm |-> NoElm]}
  ELSE {[err |-> "io", elm |-> NoElm]} \cup
       (IF c.pos < Len(StreamRecs(c.s))
        THEN {[err |-> "nil", elm |-> StreamRecs(c.s)[c.pos + 1]]}
        ELSE {[err |-> "EOF", elm |-> NoElm]})

\* the Stream after a Read with outcome r
AfterRead(c, r) == IF r.err = "nil" THEN [c EXCEPT !.pos = c.pos + 1] ELSE c

\* ------------------------------------------------- iterValue
NewIterValue(types, s) == [s |-> s, types |-> types, cur |-> Nil]

UnsetArgs(types) == [k \in 1..Len(types) |-> Unset]

\* the slot loop of iterValue.invoke
RECURSIVE FillLoop(_, _, _, _, _)
FillLoop(types, elm, args, i, isKey) ==
  IF i > Len(types) THEN args
  ELSE LET t == types[i] IN
       IF t = EventTimeType
       THEN FillLoop(types, elm, [args EXCEPT ![i] = ValueOf(EventTimeType, elm.Timestamp)],
                     i + 1, isKey)
       ELSE IF isKey
       THEN FillLoop(types, elm, [args EXCEPT ![i] = Convert(elm.Elm, t)], i + 1, FALSE)
       ELSE FillLoop(types, elm, [args EXCEPT ![i] = Convert(elm.Elm2, t)], i + 1, isKey)

\* mutant: isKey is never cleared, every non-time slot takes Elm
FillArgsKeepKey(types, elm, args) ==
  [k \in 1..Len(types) |->
     IF types[k] = EventTimeType THEN ValueOf(EventTimeType, elm.Timestamp)
     ELSE Convert(elm.Elm, types[k])]

FillArgs(types, elm, args) == FillLoop(types, elm, args, 1, TRUE)

Iters == 1..Len(iters)

\* iterValue.Init, Open fails
IterInitFail(i) ==
  /\ inited' = [inited EXCEPT ![i] = TRUE]
  /\ ret' = [op |-> "Init", it |-> i, res |-> "err_open", wraps |-> "nil"]
  /\ UNCHANGED <<recs, cursors, iters, out, calls, leaks>>
  /\ UNCHANGED <<regVars, factory, asked, adapterAsks>>

\* mutant: Init after a Reset reopens the Stream it had, where it stopped
IterInitOkResume(i) ==
  /\ Len(cursors) < MaxCursors
  /\ IF Len(cursors) = 0
     THEN /\ cursors' = Append(cursors, OpenStream(iters[i].s))
          /\ iters' = [iters EXCEPT ![i].cur = 1]
     ELSE /\ cursors' = [cursors EXCEPT ![Len(cursors)].open = TRUE]
          /\ iters' = [iters EXCEPT ![i].cur = Len(cursors)]
  /\ calls' = [calls EXCEPT ![i] = <<>>]
  /\ leaks' = [leaks EXCEPT ![i] = IF iters[i].cur # Nil THEN @ + 1 ELSE @]
  /\ inited' = [inited EXCEPT ![i] = TRUE]
  /\ ret' = [op |-> "Init", it |-> i, res |-> "nil", wraps |-> "nil"]
  /\ UNCHANGED <<recs, out>>
  /\ UNCHANGED <<regVars, factory, asked, adapterAsks>>

\* iterValue.Init, Open succeeds
IterInitOk(i) ==
  /\ Len(cursors) < MaxCursors
  /\ cursors' = Append(cursors, OpenStream(iters[i].s))
  /\ iters' = [iters EXCEPT ![i].cur = Len(cursors) + 1]
  /\ calls' = [calls EXCEPT ![i] = <<>>]
  /\ leaks' = [leaks EXCEPT ![i] = IF iters[i].cur # Nil THEN @ + 1 ELSE @]
  /\ inited' = [inited EXCEPT ![i] = TRUE]
  /\ ret' = [op |-> "Init", it |-> i, res |-> "nil", wraps |-> "nil"]
  /\ UNCHANGED <<recs, out>>
  /\ UNCHANGED <<regVars, factory, asked, adapterAsks>>

IterInit(i) == IterInitFail(i) \/ IterInitOk(i)

\* iterValue.Value
IterValue(i) ==
  /\ ret' = [op |-> "Value", it |-> i, res |-> "fn", wraps |-> "nil"]
  /\ UNCHANGED <<recs, cursors, iters, out, calls, leaks, inited>>
  /\ UNCHANGED <<regVars, factory, asked, adapterAsks>>

\* mutant: Reset without a Stream returns nil
IterResetNoInitSilent(i) ==
  /\ iters[i].cur = Nil
  /\ ret' = [op |-> "Reset", it |-> i, res |-> "nil", wraps |-> "nil"]
  /\ UNCHANGED <<recs, cursors, iters, out, calls, leaks, inited>>
  /\ UNCHANGED <<regVars, factory, asked, adapterAsks>>

\* iterValue.Reset, no Stream held
IterResetNoInit(i) ==
  /\ iters[i].cur = Nil
  /\ ret' = [op |-> "Reset", it |-> i, res |-> "panic_init", wraps |-> "nil"]
  /\ UNCHANGED <<recs, cursors, iters, out, calls, leaks, inited>>
  /\ UNCHANGED <<regVars, factory, asked, adapterAsks>>

\* iterValue.Reset, Close fails: the Stream may or may not have been released
IterResetCloseFail(i) ==
  /\ iters[i].cur # Nil
  /\ \E released \in BOOLEAN :
       cursors' = [cursors EXCEPT ![iters[i].cur].open = @ /\ ~released]
  /\ ret' = [op |-> "Reset", it |-> i, res |-> "err_close", wraps |-> "nil"]
  /\ UNCHANGED <<recs, iters, out, calls, leaks, inited>>
  /\ UNCHANGED <<regVars, factory, asked, adapterAsks>>

\* mutant: Reset closes the Stream and keeps holding it
IterResetOkKeepsCur(i) ==
  /\ iters[i].cur # Nil
  /\ cursors' = [cursors EXCEPT ![iters[i].cur].open = FALSE]
  /\ ret' = [op |-> "Reset", it |-> i, res |-> "nil", wraps |-> "nil"]
  /\ UNCHANGED <<recs, iters, out, calls, leaks, inited>>
  /\ UNCHANGED <<regVars, factory, asked, adapterAsks>>

\* mutant: Reset drops the Stream without closing it
IterResetOkNoClose(i) ==
  /\ iters[i].cur # Nil
  /\ iters' = [iters EXCEPT ![i].cur = Nil]
  /\ ret' = [op |-> "Reset", it |-> i, res |-> "nil", wraps |-> "nil"]
  /\ UNCHANGED <<recs, cursors, out, calls, leaks, inited>>
  /\ UNCHANGED <<regVars, factory, asked, adapterAsks>>

\* iterValue.Reset, Close succeeds
IterResetOk(i) ==
  /\ iters[i].cur # Nil
  /\ cursors' = [cursors EXCEPT ![iters[i].cur].open = FALSE]
  /\ iters' = [iters EXCEPT ![i].cur = Nil]
  /\ ret' = [op |-> "Reset", it |-> i, res |-> "nil", wraps |-> "nil"]
  /\ UNCHANGED <<recs, out, calls, leaks, inited>>
  /\ UNCHANGED <<regVars, factory, asked, adapterAsks>>

IterReset(i) == IterResetNoInit(i) \/ IterResetCloseFail(i) \/ IterResetOk(i)

\* mutant: without a Stream the callable reports the end of the stream
InvokeNoInitReturnsFalse(i) ==
  /\ iters[i].cur = Nil
  /\ ret' = [op |-> "invoke", it |-> i, res |-> "false", wraps |-> "nil"]
  /\ UNCHANGED <<recs, cursors, iters, out, calls, leaks, inited>>
  /\ UNCHANGED <<regVars, factory, asked, adapterAsks>>

\* iterValue.invoke, no Stream held
InvokeNoInit(i) ==
  /\ iters[i].cur = Nil
  /\ ret' = [op |-> "invoke", it |-> i, res |-> "panic_init", wraps |-> "nil"]
  /\ UNCHANGED <<recs, cursors, iters, out, calls, leaks, inited>>
  /\ UNCHANGED <<regVars, factory, asked, adapterAsks>>

\* mutant: a failed read reported as the end of the stream
InvokeReturnErrAsEOF(r) ==
  IF r.err = "nil" THEN [res |-> "true", wraps |-> "nil"]
  ELSE [res |-> "false", wraps |-> "nil"]

\* mutant: io.EOF reported as one more element
InvokeReturnEOFTrue(r) ==
  IF r.err \in {"nil", "EOF"} THEN [res |-> "true", wraps |-> "nil"]
  ELSE [res |-> "panic_broken", wraps |-> r.err]

\* what iterValue.invoke does with the outcome of Read: false on io.EOF, a
\* panic wrapping any other error, true after filling the out parameters
InvokeReturn(r) ==
  IF r.err = "nil" THEN [res |-> "true", wraps |-> "nil"]
  ELSE IF r.err = "EOF" THEN [res |-> "false", wraps |-> "nil"]
  ELSE [res |-> "panic_broken", wraps |-> r.err]

\* mutant: at io.EOF the out parameters are cleared before false is returned
InvokeReadClearsAtEOF(i) ==
  /\ iters[i].cur # Nil
  /\ Len(calls[i]) < MaxCalls
  /\ \A j \in 1..Len(calls[i]) : calls[i][j].res # "panic_broken"
  /\ \E r \in Read(cursors[iters[i].cur]) :
       LET rv == InvokeReturn(r) IN
       /\ cursors' = [cursors EXCEPT ![iters[i].cur] = AfterRead(@, r)]
       /\ out' = [out EXCEPT ![i] = IF rv.res = "true"
                                     THEN FillArgs(iters[i].types, r.elm, @)
                                     ELSE UnsetArgs(iters[i].types)]
       /\ calls' = [calls EXCEPT ![i] =
                      Append(@, [err |-> r.err, res |-> rv.res, elm |-> r.elm, out |-> out'[i]])]
       /\ ret' = [op |-> "invoke", it |-> i, res |-> rv.res, wraps |-> rv.wraps]
  /\ UNCHANGED <<recs, iters, leaks, inited>>
  /\ UNCHANGED <<regVars, factory, asked, adapterAsks>>

\* iterValue.invoke with a Stream held: one Read, then the result. The
\* broken-stream panic ends the caller's use of the callable: it is not invoked
\* again on the same Stream.
InvokeRead(i) ==
  /\ iters[i].cur # Nil
  /\ Len(calls[i]) < MaxCalls
  /\ \A j \in 1..Len(calls[i]) : calls[i][j].res # "panic_broken"
  /\ \E r \in Read(cursors[iters[i].cur]) :
       LET rv == InvokeReturn(r) IN
       /\ cursors' = [cursors EXCEPT ![iters[i].cur] = AfterRead(@, r)]
       /\ out' = [out EXCEPT ![i] = IF rv.res = "true"
                                     THEN FillArgs(iters[i].types, r.elm, @) ELSE @]
       /\ calls' = [calls EXCEPT ![i] =
                      Append(@, [err |-> r.err, res |-> rv.res, elm |-> r.elm, out |-> out'[i]])]
       /\ ret' = [op |-> "invoke", it |-> i, res |-> rv.res, wraps |-> rv.wraps]
  /\ UNCHANGED <<recs, iters, leaks, inited>>
  /\ UNCHANGED <<regVars, factory, asked, adapterAsks>>

IterInvoke(i) == InvokeNoInit(i) \/ InvokeRead(i)

\* the records of an Element Stream
Streams == SeqsUpTo(Elements, MaxRecs)

\* the iterator types of the lifecycle runs: func(*V) bool and
\* func(*EventTime, *K, *V) bool
IterShapes == {<<"Value">>, <<EventTimeType, "Key", "Value">>}

\* ------------------------------------------------- the input registry
Goroutines == {"g1", "g2"}
Makers == {"A", "B"}
RegTypes == {IterType(<<"Value">>), IllegalType}

NoCall == [fn |-> "none", t |-> IllegalType, maker |-> "none"]
NoSeen == [val |-> "none", expect |-> "none", settled |-> FALSE, raced |-> FALSE]

\* inputs = make(map...), inputsMu unlocked, no goroutine in a registry function
RegistryAtStart ==
  /\ inputs = [t \in RegTypes |-> "none"]
  /\ inputsMu = "free"
  /\ pc = [p \in Goroutines |-> "idle"]
  /\ call = [p \in Goroutines |-> NoCall]
  /\ seen = [p \in Goroutines |-> NoSeen]
  /\ lastDone = [t \in RegTypes |-> <<"none", "none">>]

\* the runtime's "concurrent map read and map write" ends the process
Alive == \A p \in Goroutines : pc[p] # "fatal"
Registering == {p \in Goroutines : pc[p] \in {"reg_lock", "reg_write", "reg_writing", "reg_unlock"}}
Writing == {p \in Goroutines : pc[p] = "reg_writing"}
Reading == {p \in Goroutines : pc[p] \in {"is_reading", "mk_reading"}}

\* a goroutine calls RegisterInput(t, maker)
RegCall(p) ==
  /\ Alive /\ pc[p] = "idle"
  /\ \E t \in RegTypes, mk \in Makers :
       call' = [call EXCEPT ![p] = [fn |-> "RegisterInput", t |-> t, maker |-> mk]]
  /\ pc' = [pc EXCEPT ![p] = "reg_lock"]
  /\ seen' = [q \in Goroutines |->
                IF q \in Reading THEN [seen[q] EXCEPT !.settled = FALSE]
                ELSE IF q = p THEN NoSeen ELSE seen[q]]
  /\ UNCHANGED <<inputs, inputsMu, lastDone>>
  /\ UNCHANGED iterVars

\* RegisterInput: inputsMu.Lock()
RegLock(p) ==
  /\ Alive /\ pc[p] = "reg_lock"
  /\ inputsMu = "free"
  /\ inputsMu' = p
  /\ pc' = [pc EXCEPT ![p] = "reg_write"]
  /\ UNCHANGED <<inputs, call, seen, lastDone>>
  /\ UNCHANGED iterVars

\* RegisterInput: inputs[t] = maker, the write starts
RegWriteBegin(p) ==
  /\ Alive /\ pc[p] = "reg_write"
  /\ pc' = [pc EXCEPT ![p] = "reg_writing"]
  /\ seen' = [q \in Goroutines |->
                IF q \in Reading THEN [seen[q] EXCEPT !.raced = TRUE] ELSE seen[q]]
  /\ UNCHANGED <<inputs, inputsMu, call, lastDone>>
  /\ UNCHANGED iterVars

\* mutant: a type that has a maker keeps it
MapStoreKeepFirst(map, t, mk) == IF map[t] # "none" THEN map ELSE [map EXCEPT ![t] = mk]

\* the map after inputs[t] = maker
MapStore(map, t, mk) == [map EXCEPT ![t] = mk]

\* RegisterInput: inputs[t] = maker, the write is done
RegWriteEnd(p) ==
  /\ Alive /\ pc[p] = "reg_writing"
  /\ inputs' = MapStore(inputs, call[p].t, call[p].maker)
  /\ pc' = [pc EXCEPT ![p] = "reg_unlock"]
  /\ UNCHANGED <<inputsMu, call, seen, lastDone>>
  /\ UNCHANGED iterVars

\* RegisterInput: the deferred inputsMu.Unlock() and the return, to the caller
\* or to the maker that made the call
RegUnlock(p) ==
  /\ Alive /\ pc[p] = "reg_unlock"
  /\ inputsMu' = "free"
  /\ lastDone' = [lastDone EXCEPT ![call[p].t] = <<@[2], call[p].maker>>]
  /\ pc' = [pc EXCEPT ![p] = IF call[p].fn = "maker.RegisterInput" THEN "mk_ret" ELSE "idle"]
  /\ call' = [call EXCEPT ![p] = NoCall]
  /\ UNCHANGED <<inputs, seen>>
  /\ UNCHANGED iterVars

\* a goroutine calls IsInputRegistered(t)
IsCall(p) ==
  /\ Alive /\ pc[p] = "idle"
  /\ \E t \in RegTypes :
       call' = [call EXCEPT ![p] = [fn |-> "IsInputRegistered", t |-> t, maker |-> "none"]]
  /\ pc' = [pc EXCEPT ![p] = "is_read"]
  /\ seen' = [seen EXCEPT ![p] = NoSeen]
  /\ UNCHANGED <<inputs, inputsMu, lastDone>>
  /\ UNCHANGED iterVars

\* IsInputRegistered: _, exists := inputs[t], the read starts (no lock taken)
IsReadBegin(p) ==
  /\ Alive /\ pc[p] = "is_read"
  /\ pc' = [pc EXCEPT ![p] = "is_reading"]
  /\ seen' = [seen EXCEPT ![p] = [NoSeen EXCEPT !.settled = (Registering = {}),
                                                 !.raced = (Writing # {})]]
  /\ UNCHANGED <<inputs, inputsMu, call, lastDone>>
  /\ UNCHANGED iterVars

\* maker, exists := inputs[t]
Lookup(map, t) == IF t \in DOMAIN map THEN map[t] ELSE "none"

\* what a read of inputs[t] gives: the entry, or, when a write overlapped the
\* read, anything the runtime may do with a concurrent map read and map write
MapLoad(map, t, raced) ==
  IF raced THEN Makers \cup {"none", "fatal"} ELSE {Lookup(map, t)}

\* IsInputRegistered: the read is done, return exists
IsReadEnd(p) ==
  /\ Alive /\ pc[p] = "is_reading"
  /\ \E v \in MapLoad(inputs, call[p].t, seen[p].raced) :
       /\ seen' = [seen EXCEPT ![p] = [@ EXCEPT !.val = v, !.expect = lastDone[call[p].t][2]]]
       /\ pc' = [pc EXCEPT ![p] = IF v = "fatal" THEN "fatal" ELSE "is_done"]
  /\ UNCHANGED <<inputs, inputsMu, call, lastDone>>
  /\ UNCHANGED iterVars

\* IsInputRegistered has returned
IsReturn(p) ==
  /\ Alive /\ pc[p] = "is_done"
  /\ pc' = [pc EXCEPT ![p] = "idle"]
  /\ call' = [call EXCEPT ![p] = NoCall]
  /\ seen' = [seen EXCEPT ![p] = NoSeen]
  /\ UNCHANGED <<inputs, inputsMu, lastDone>>
  /\ UNCHANGED iterVars

\* a goroutine calls makeIter(t, s)
MkCall(p) ==
  /\ Alive /\ pc[p] = "idle"
  /\ \E t \in RegTypes :
       call' = [call EXCEPT ![p] = [fn |-> "makeIter", t |-> t, maker |-> "none"]]
  /\ pc' = [pc EXCEPT ![p] = "mk_lock"]
  /\ seen' = [seen EXCEPT ![p] = NoSeen]
  /\ UNCHANGED <<inputs, inputsMu, lastDone>>
  /\ UNCHANGED iterVars

\* makeIter: inputsMu.Lock()
MkLock(p) ==
  /\ Alive /\ pc[p] = "mk_lock"
  /\ inputsMu = "free"
  /\ inputsMu' = p
  /\ pc' = [pc EXCEPT ![p] = "mk_read"]
  /\ UNCHANGED <<inputs, call, seen, lastDone>>
  /\ UNCHANGED iterVars

\* makeIter: maker, exists := inputs[t], the read starts
MkReadBegin(p) ==
  /\ Alive /\ pc[p] = "mk_read"
  /\ pc' = [pc EXCEPT ![p] = "mk_reading"]
  /\ seen' = [seen EXCEPT ![p] = [NoSeen EXCEPT !.settled = (Registering = {}),
                                                 !.raced = (Writing # {})]]
  /\ UNCHANGED <<inputs, inputsMu, call, lastDone>>
  /\ UNCHANGED iterVars

\* makeIter: the read is done
MkReadEnd(p) ==
  /\ Alive /\ pc[p] = "mk_reading"
  /\ \E v \in MapLoad(inputs, call[p].t, seen[p].raced) :
       /\ seen' = [seen EXCEPT ![p] = [@ EXCEPT !.val = v, !.expect = lastDone[call[p].t][2]]]
       /\ pc' = [pc EXCEPT ![p] = IF v = "fatal" THEN "fatal" ELSE "mk_unlock"]
  /\ UNCHANGED <<inputs, inputsMu, call, lastDone>>
  /\ UNCHANGED iterVars

\* mutant: the lock is released by a deferred Unlock, after maker(s) returns
MkUnlockDeferred(p) ==
  /\ Alive /\ pc[p] = "mk_unlock"
  /\ pc' = [pc EXCEPT ![p] = "mk_make"]
  /\ UNCHANGED <<inputs, inputsMu, call, seen, lastDone>>
  /\ UNCHANGED iterVars

\* makeIter: inputsMu.Unlock()
MkUnlock(p) ==
  /\ Alive /\ pc[p] = "mk_unlock"
  /\ inputsMu' = "free"
  /\ pc' = [pc EXCEPT ![p] = "mk_make"]
  /\ UNCHANGED <<inputs, call, seen, lastDone>>
  /\ UNCHANGED iterVars

\* mutant: the shape check runs before the registry is consulted
MakeIterResultShapeFirst(t, s, maker) ==
  IF ~UnfoldIter(t).ok THEN [kind |-> "panic_illegal", maker |-> "none", s |-> s, types |-> <<>>]
  ELSE IF maker # "none" THEN [kind |-> "custom", maker |-> maker, s |-> s, types |-> <<>>]
  ELSE [kind |-> "iterValue", maker |-> "none", s |-> s, types |-> UnfoldIter(t).types]

\* what makeIter returns once the lookup is done: maker(s) when a maker exists,
\* else the reflection-based iterValue, or a panic for an illegal iter type
MakeIterResult(t, s, maker) ==
  IF maker # "none" THEN [kind |-> "custom", maker |-> maker, s |-> s, types |-> <<>>]
  ELSE IF ~UnfoldIter(t).ok THEN [kind |-> "panic_illegal", maker |-> "none", s |-> s, types |-> <<>>]
  ELSE [kind |-> "iterValue", maker |-> "none", s |-> s, types |-> UnfoldIter(t).types]

\* makeIter found a maker and runs maker(s)
MakerRuns(p) ==
  /\ pc[p] = "mk_make"
  /\ MakeIterResult(call[p].t, "s", seen[p].val).kind = "custom"

\* maker(s): the maker's code calls RegisterInput(t, maker)
MakerCallsRegisterInput(p) ==
  /\ Alive /\ MakerRuns(p)
  /\ \E t \in RegTypes, mk \in Makers :
       call' = [call EXCEPT ![p] = [fn |-> "maker.RegisterInput", t |-> t, maker |-> mk]]
  /\ pc' = [pc EXCEPT ![p] = "reg_lock"]
  /\ seen' = [q \in Goroutines |->
                IF q \in Reading THEN [seen[q] EXCEPT !.settled = FALSE] ELSE seen[q]]
  /\ UNCHANGED <<inputs, inputsMu, lastDone>>
  /\ UNCHANGED iterVars

\* maker(s): the maker's code calls makeIter(t, s), whose result it returns
MakerCallsMakeIter(p) ==
  /\ Alive /\ MakerRuns(p)
  /\ call[p].fn = "makeIter"
  /\ \E t \in RegTypes :
       call' = [call EXCEPT ![p] = [fn |-> "maker.makeIter", t |-> t, maker |-> "none"]]
  /\ pc' = [pc EXCEPT ![p] = "mk_lock"]
  /\ seen' = [seen EXCEPT ![p] = NoSeen]
  /\ UNCHANGED <<inputs, inputsMu, lastDone>>
  /\ UNCHANGED iterVars

\* makeIter: the rest of the function, and the return
MkReturn(p) ==
  /\ Alive /\ pc[p] \in {"mk_make", "mk_ret"}
  /\ pc' = [pc EXCEPT ![p] = "idle"]
  /\ call' = [call EXCEPT ![p] = NoCall]
  /\ seen' = [seen EXCEPT ![p] = NoSeen]
  /\ UNCHANGED <<inputs, inputsMu, lastDone>>
  /\ UNCHANGED iterVars

InitReg ==
  /\ recs = [s \in {"s"} |-> <<>>]
  /\ cursors = <<>>
  /\ iters = <<>>
  /\ out = <<>>
  /\ calls = <<>>
  /\ leaks = <<>>
  /\ inited = <<>>
  /\ asked = <<>>
  /\ adapterAsks = 0
  /\ ret = [op |-> "none", it |-> Nil, res |-> "nil", wraps |-> "nil"]
  /\ RegistryAtStart
  /\ factory = NoFactory

NextReg ==
  \/ \E p \in Goroutines : RegCall(p)
  \/ \E p \in Goroutines : RegLock(p)
  \/ \E p \in Goroutines : RegWriteBegin(p)
  \/ \E p \in Goroutines : RegWriteEnd(p)
  \/ \E p \in Goroutines : RegUnlock(p)
  \/ \E p \in Goroutines : IsCall(p)
  \/ \E p \in Goroutines : IsReadBegin(p)
  \/ \E p \in Goroutines : IsReadEnd(p)
  \/ \E p \in Goroutines : IsReturn(p)
  \/ \E p \in Goroutines : MkCall(p)
  \/ \E p \in Goroutines : MkLock(p)
  \/ \E p \in Goroutines : MkReadBegin(p)
  \/ \E p \in Goroutines : MkReadEnd(p)
  \/ \E p \in Goroutines : MkUnlock(p)
  \/ \E p \in Goroutines : MakerCallsRegisterInput(p)
  \/ \E p \in Goroutines : MakerCallsMakeIter(p)
  \/ \E p \in Goroutines : MkReturn(p)

SpecReg == InitReg /\ [][NextReg]_vars

\* ------------------------------------------------- reIterValue
\* makeIter(t, s) run to completion by one goroutine
MakeIter(t, s) == MakeIterResult(t, s, Lookup(inputs, t))

\* reIterValue.Init, Value, Reset
ReIterInit ==
  /\ factory.kind = "reIter"
  /\ ret' = [op |-> "reIter.Init", it |-> Nil, res |-> "nil", wraps |-> "nil"]
  /\ UNCHANGED <<recs, cursors, iters, out, calls, leaks, inited, asked, adapterAsks, factory, regVars>>

ReIterValue ==
  /\ factory.kind = "reIter"
  /\ ret' = [op |-> "reIter.Value", it |-> Nil, res |-> "fn", wraps |-> "nil"]
  /\ UNCHANGED <<recs, cursors, iters, out, calls, leaks, inited, asked, adapterAsks, factory, regVars>>

\* mutant: the factory's Reset closes the Streams of the iterators it made
ReIterResetClosesAll ==
  /\ factory.kind = "reIter"
  /\ cursors' = [c \in 1..Len(cursors) |-> [cursors[c] EXCEPT !.open = FALSE]]
  /\ ret' = [op |-> "reIter.Reset", it |-> Nil, res |-> "nil", wraps |-> "nil"]
  /\ UNCHANGED <<recs, iters, out, calls, leaks, inited, asked, adapterAsks, factory, regVars>>

ReIterReset ==
  /\ factory.kind = "reIter"
  /\ ret' = [op |-> "reIter.Reset", it |-> Nil, res |-> "nil", wraps |-> "nil"]
  /\ UNCHANGED <<recs, cursors, iters, out, calls, leaks, inited, asked, adapterAsks, factory, regVars>>

\* mutant: every iterator the factory hands out reads the Stream opened first
SpawnShared(op, t, s, opened) ==
  /\ MakeIter(t, s).kind = "iterValue"
  /\ Len(iters) < MaxCursors
  /\ opened => Len(cursors) < MaxCursors
  /\ iters' = Append(iters, [NewIterValue(MakeIter(t, s).types, s) EXCEPT
                               !.cur = IF opened THEN 1 ELSE Nil])
  /\ cursors' = IF opened THEN Append(cursors, OpenStream(s)) ELSE cursors
  /\ out' = Append(out, UnsetArgs(MakeIter(t, s).types))
  /\ calls' = Append(calls, <<>>)
  /\ leaks' = Append(leaks, 0)
  /\ inited' = Append(inited, TRUE)
  /\ ret' = [op |-> op, it |-> Len(iters) + 1, res |-> "fn", wraps |-> "nil"]
  /\ UNCHANGED <<recs, factory, regVars>>

\* makeIter builds an iterValue over s, iter.Init() is called and its error
\* dropped, and iter.Value() is returned: Open succeeded or not
Spawn(op, t, s, opened) ==
  /\ MakeIter(t, s).kind = "iterValue"
  /\ Len(iters) < MaxCursors
  /\ opened => Len(cursors) < MaxCursors
  /\ iters' = Append(iters, [NewIterValue(MakeIter(t, s).types, s) EXCEPT
                               !.cur = IF opened THEN Len(cursors) + 1 ELSE Nil])
  /\ cursors' = IF opened THEN Append(cursors, OpenStream(s)) ELSE cursors
  /\ out' = Append(out, UnsetArgs(MakeIter(t, s).types))
  /\ calls' = Append(calls, <<>>)
  /\ leaks' = Append(leaks, 0)
  /\ inited' = Append(inited, TRUE)
  /\ ret' = [op |-> op, it |-> Len(iters) + 1, res |-> "fn", wraps |-> "nil"]
  /\ UNCHANGED <<recs, factory, regVars>>

\* makeIter builds no iterValue: a registered maker builds the value, whose
\* Init and Value are the maker's own, or the iter type is illegal and
\* makeIter panics
SpawnCustom(op, t, s) ==
  /\ MakeIter(t, s).kind # "iterValue"
  /\ ret' = [op |-> op, it |-> Nil, wraps |-> "nil",
             res |-> IF MakeIter(t, s).kind = "custom" THEN "custom_fn" ELSE "panic_illegal"]
  /\ UNCHANGED <<recs, cursors, iters, out, calls, leaks, inited, asked, factory, regVars>>

\* reIterValue.invoke
ReIterInvokeOpened ==
  /\ factory.kind = "reIter"
  /\ Spawn("reIter.invoke", Out0(factory.t), factory.s, TRUE)
  /\ asked' = Append(asked, "none")
  /\ UNCHANGED adapterAsks

ReIterInvokeOpenFailed ==
  /\ factory.kind = "reIter"
  /\ Spawn("reIter.invoke", Out0(factory.t), factory.s, FALSE)
  /\ asked' = Append(asked, "none")
  /\ UNCHANGED adapterAsks

ReIterInvokeCustom ==
  /\ factory.kind = "reIter"
  /\ SpawnCustom("reIter.invoke", Out0(factory.t), factory.s)
  /\ UNCHANGED adapterAsks

\* the state after makeReIter(t, s), with the iterator type registered or not
InitReIter ==
  /\ recs \in [{"s"} -> Streams]
  /\ cursors = <<>>
  /\ iters = <<>>
  /\ out = <<>>
  /\ calls = <<>>
  /\ leaks = <<>>
  /\ inited = <<>>
  /\ asked = <<>>
  /\ adapterAsks = 0
  /\ ret = [op |-> "makeReIter", it |-> Nil, res |-> "nil", wraps |-> "nil"]
  /\ \E types \in IterShapes : factory = [kind |-> "reIter", t |-> ReIterType(types), s |-> "s"]
  /\ \E mk \in {"none", "A"} :
       inputs = [t \in RegTypes |-> IF t = IterType(<<"Value">>) THEN mk ELSE "none"]
  /\ inputsMu = "free"
  /\ pc = [p \in Goroutines |-> "idle"]
  /\ call = [p \in Goroutines |-> NoCall]
  /\ seen = [p \in Goroutines |-> NoSeen]
  /\ lastDone = [t \in RegTypes |-> <<"none", inputs[t]>>]

NextReIter ==
  \/ ReIterInit
  \/ ReIterValue
  \/ ReIterReset
  \/ ReIterInvokeOpened
  \/ ReIterInvokeOpenFailed
  \/ ReIterInvokeCustom
  \/ \E i \in Iters : InvokeNoInit(i)
  \/ \E i \in Iters : InvokeRead(i)

SpecReIter == InitReIter /\ [][NextReIter]_vars

\* ------------------------------------------------- multiMapValue
Keys == {"k1", "k2"}
NilStream == "nil"

\* SideInputAdapter.NewKeyedIterable(ctx, reader, w, key): the ReStream of the
\* (window, key) pair, or an error and no stream
NewKeyedIterable(w, key) ==
  {[rs |-> key, err |-> "nil"], [rs |-> NilStream, err |-> "error"]}

\* mutant: the lookup ignores its argument and asks for the first key
MultiMapInvokeFirstKey(key, opened) ==
  /\ factory.kind = "multiMap"
  /\ \E a \in NewKeyedIterable(factory.s, Convert("k1", "Key").val) :
       /\ a.err = "nil"
       /\ Spawn("multiMap.invoke", Out0(factory.t), a.rs, opened)
  /\ asked' = Append(asked, key)
  /\ adapterAsks' = 1

\* mutant: the accessor caches the Stream of a key it has looked up
MultiMapInvokeCached(key, opened) ==
  /\ factory.kind = "multiMap"
  /\ IF \E i \in Iters : asked[i] = key /\ iters[i].cur # Nil
     THEN /\ Len(iters) < MaxCursors
          /\ opened
          /\ LET i == CHOOSE i \in Iters : asked[i] = key /\ iters[i].cur # Nil IN
               /\ iters' = Append(iters, iters[i])
               /\ out' = Append(out, UnsetArgs(iters[i].types))
          /\ calls' = Append(calls, <<>>)
          /\ leaks' = Append(leaks, 0)
          /\ inited' = Append(inited, TRUE)
          /\ ret' = [op |-> "multiMap.invoke", it |-> Len(iters) + 1, res |-> "fn", wraps |-> "nil"]
          /\ adapterAsks' = 0
          /\ UNCHANGED <<recs, cursors, factory, regVars>>
     ELSE /\ \E a \in NewKeyedIterable(factory.s, Convert(key, "Key").val) :
               /\ a.err = "nil"
               /\ Spawn("multiMap.invoke", Out0(factory.t), a.rs, opened)
          /\ adapterAsks' = 1
  /\ asked' = Append(asked, key)

\* multiMapValue.invoke: the adapter gave a stream, Open succeeded or not
MultiMapInvoke(key, opened) ==
  /\ factory.kind = "multiMap"
  /\ \E a \in NewKeyedIterable(factory.s, Convert(key, "Key").val) :
       /\ a.err = "nil"
       /\ Spawn("multiMap.invoke", Out0(factory.t), a.rs, opened)
  /\ asked' = Append(asked, key)
  /\ adapterAsks' = 1

MultiMapInvokeOpened(key) == MultiMapInvoke(key, TRUE)

MultiMapInvokeOpenFailed(key) == MultiMapInvoke(key, FALSE)

\* multiMapValue.invoke: the adapter's error is dropped, and iter.Init() calls
\* Open on the nil stream
MultiMapInvokeNoStream(key) ==
  /\ factory.kind = "multiMap"
  /\ \E a \in NewKeyedIterable(factory.s, Convert(key, "Key").val) :
       /\ a.err # "nil"
       /\ MakeIter(Out0(factory.t), a.rs).kind = "iterValue"
  /\ ret' = [op |-> "multiMap.invoke", it |-> Nil, res |-> "panic_nil_stream", wraps |-> "nil"]
  /\ adapterAsks' = 1
  /\ UNCHANGED <<recs, cursors, iters, out, calls, leaks, inited, asked, factory, regVars>>

\* the state after makeMultiMap for func(K) func(*V) bool: state holds records
\* for k1 and none for k2
InitMM ==
  /\ recs \in [{"k1"} -> Streams \ {<<>>}]
  /\ cursors = <<>>
  /\ iters = <<>>
  /\ out = <<>>
  /\ calls = <<>>
  /\ leaks = <<>>
  /\ inited = <<>>
  /\ asked = <<>>
  /\ adapterAsks = 0
  /\ ret = [op |-> "makeMultiMap", it |-> Nil, res |-> "nil", wraps |-> "nil"]
  /\ factory = [kind |-> "multiMap", t |-> MultiMapType(<<"Value">>), s |-> "w"]
  /\ RegistryAtStart

NextMM ==
  \/ \E k \in Keys : MultiMapInvokeOpened(k)
  \/ \E k \in Keys : MultiMapInvokeOpenFailed(k)
  \/ \E k \in Keys : MultiMapInvokeNoStream(k)
  \/ \E i \in Iters : InvokeNoInit(i)
  \/ \E i \in Iters : InvokeRead(i)

SpecMM == InitMM /\ [][NextMM]_vars

\* ------------------------------------------------- construction
\* the function types handed to makeIter, makeReIter and makeMultiMap:
\* func(*V) bool, func() bool, a non-function, and the re-iterable and multimap
\* types returning func(*V) bool or func() bool
MakeTypes ==
  { IterType(<<"Value">>), IterType(<<>>), IllegalType,
    ReIterType(<<"Value">>), ReIterType(<<>>),
    MultiMapType(<<"Value">>), MultiMapType(<<>>) }

NothingMade == factory = NoFactory /\ iters = <<>>

\* makeIter(t, s): the generic iterValue
MakeIterGeneric(t) ==
  /\ NothingMade
  /\ MakeIter(t, "s").kind = "iterValue"
  /\ iters' = <<NewIterValue(MakeIter(t, "s").types, "s")>>
  /\ out' = <<UnsetArgs(MakeIter(t, "s").types)>>
  /\ calls' = <<<<>>>>
  /\ leaks' = <<0>>
  /\ inited' = <<FALSE>>
  /\ asked' = <<"none">>
  /\ ret' = [op |-> "makeIter", it |-> 1, res |-> "nil", wraps |-> "nil"]
  /\ UNCHANGED <<recs, cursors, factory, adapterAsks, regVars>>

\* makeIter(t, s): maker(s), or the panic "illegal iter type"
MakeIterOther(t) ==
  /\ NothingMade
  /\ SpawnCustom("makeIter", t, "s")
  /\ UNCHANGED adapterAsks

\* makeReIter(t, s): the panic "illegal re-iter type"
MakeReIterPanic(t) ==
  /\ NothingMade
  /\ ~IsReIter(t)
  /\ ret' = [op |-> "makeReIter", it |-> Nil, res |-> "panic_illegal", wraps |-> "nil"]
  /\ UNCHANGED <<recs, cursors, iters, out, calls, leaks, inited, asked, adapterAsks, factory, regVars>>

\* mutant: makeReIter without the IsReIter test
MakeReIterUnchecked(t) ==
  /\ NothingMade
  /\ t.kind = "reiter"
  /\ factory' = [kind |-> "reIter", t |-> t, s |-> "s"]
  /\ ret' = [op |-> "makeReIter", it |-> Nil, res |-> "nil", wraps |-> "nil"]
  /\ UNCHANGED <<recs, cursors, iters, out, calls, leaks, inited, asked, adapterAsks, regVars>>

\* makeReIter(t, s): the reIterValue
MakeReIterOk(t) ==
  /\ NothingMade
  /\ IsReIter(t)
  /\ factory' = [kind |-> "reIter", t |-> t, s |-> "s"]
  /\ ret' = [op |-> "makeReIter", it |-> Nil, res |-> "nil", wraps |-> "nil"]
  /\ UNCHANGED <<recs, cursors, iters, out, calls, leaks, inited, asked, adapterAsks, regVars>>

\* makeMultiMap(ctx, t, adapter, reader, w): the panic "illegal multimap type"
MakeMultiMapPanic(t) ==
  /\ NothingMade
  /\ ~UnfoldMultiMap(t).ok
  /\ ret' = [op |-> "makeMultiMap", it |-> Nil, res |-> "panic_illegal", wraps |-> "nil"]
  /\ UNCHANGED <<recs, cursors, iters, out, calls, leaks, inited, asked, adapterAsks, factory, regVars>>

\* makeMultiMap(ctx, t, adapter, reader, w): the multiMapValue
MakeMultiMapOk(t) ==
  /\ NothingMade
  /\ UnfoldMultiMap(t).ok
  /\ factory' = [kind |-> "multiMap", t |-> t, s |-> "w"]
  /\ ret' = [op |-> "makeMultiMap", it |-> Nil, res |-> "nil", wraps |-> "nil"]
  /\ UNCHANGED <<recs, cursors, iters, out, calls, leaks, inited, asked, adapterAsks, regVars>>

\* multiMapValue.invoke: makeIter builds no iterValue over the adapter's stream
MultiMapInvokeCustom(key) ==
  /\ factory.kind = "multiMap"
  /\ \E a \in NewKeyedIterable(factory.s, Convert(key, "Key").val) :
       /\ a.err = "nil"
       /\ SpawnCustom("multiMap.invoke", Out0(factory.t), a.rs)
  /\ adapterAsks' = 1

\* nothing constructed yet, one record in every stream; every registered type
\* has a maker, or none has
InitMake ==
  /\ recs = [s \in {"s", "k1"} |-> <<[Elm |-> "7", Elm2 |-> "x", Timestamp |-> "T1"]>>]
  /\ cursors = <<>>
  /\ iters = <<>>
  /\ out = <<>>
  /\ calls = <<>>
  /\ leaks = <<>>
  /\ inited = <<>>
  /\ asked = <<>>
  /\ adapterAsks = 0
  /\ ret = [op |-> "none", it |-> Nil, res |-> "nil", wraps |-> "nil"]
  /\ factory = NoFactory
  /\ \E mk \in {"none", "A"} : inputs = [t \in RegTypes |-> mk]
  /\ inputsMu = "free"
  /\ pc = [p \in Goroutines |-> "idle"]
  /\ call = [p \in Goroutines |-> NoCall]
  /\ seen = [p \in Goroutines |-> NoSeen]
  /\ lastDone = [t \in RegTypes |-> <<"none", inputs[t]>>]

NextMake ==
  \/ \E t \in MakeTypes : MakeIterGeneric(t)
  \/ \E t \in MakeTypes : MakeIterOther(t)
  \/ \E t \in MakeTypes : MakeReIterPanic(t)
  \/ \E t \in MakeTypes : MakeReIterOk(t)
  \/ \E t \in MakeTypes : MakeMultiMapPanic(t)
  \/ \E t \in MakeTypes : MakeMultiMapOk(t)
  \/ \E i \in Iters : IterInitOk(i)
  \/ \E i \in Iters : IterValue(i)
  \/ \E i \in Iters : IterResetOk(i)
  \/ \E i \in Iters : InvokeNoInit(i)
  \/ \E i \in Iters : InvokeRead(i)
  \/ ReIterInit
  \/ ReIterValue
  \/ ReIterReset
  \/ ReIterInvokeOpened
  \/ ReIterInvokeCustom
  \/ \E k \in {"k1"} : MultiMapInvokeOpened(k)
  \/ \E k \in {"k1"} : MultiMapInvokeCustom(k)

SpecMake == InitMake /\ [][NextMake]_vars

\* ------------------------------------------------- one Sequential Iterator
Init ==
  /\ recs \in [{"s"} -> Streams]
  /\ cursors = <<>>
  /\ \E types \in IterShapes :
       /\ iters = <<NewIterValue(types, "s")>>
       /\ out = <<UnsetArgs(types)>>
  /\ calls = <<<<>>>>
  /\ leaks = <<0>>
  /\ inited = <<FALSE>>
  /\ asked = <<"none">>
  /\ adapterAsks = 0
  /\ ret = [op |-> "makeIter", it |-> 1, res |-> "nil", wraps |-> "nil"]
  /\ RegistryAtStart
  /\ factory = NoFactory

Next ==
  \/ \E i \in Iters : IterInitFail(i)
  \/ \E i \in Iters : IterInitOk(i)
  \/ \E i \in Iters : IterValue(i)
  \/ \E i \in Iters : IterResetNoInit(i)
  \/ \E i \in Iters : IterResetCloseFail(i)
  \/ \E i \in Iters : IterResetOk(i)
  \/ \E i \in Iters : InvokeNoInit(i)
  \/ \E i \in Iters : InvokeRead(i)

Spec == Init /\ [][Next]_vars

\* ------------------------------------------------- every out-parameter shape
\* one pass over a stream without failures, for every ordering of the slots
InitShape ==
  /\ recs \in [{"s"} -> Streams]
  /\ cursors = <<>>
  /\ \E types \in Shapes :
       /\ iters = <<NewIterValue(types, "s")>>
       /\ out = <<UnsetArgs(types)>>
  /\ calls = <<<<>>>>
  /\ leaks = <<0>>
  /\ inited = <<FALSE>>
  /\ asked = <<"none">>
  /\ adapterAsks = 0
  /\ ret = [op |-> "makeIter", it |-> 1, res |-> "nil", wraps |-> "nil"]
  /\ RegistryAtStart
  /\ factory = NoFactory

NextShape ==
  \/ \E i \in Iters : IterInitOk(i)
  \/ \E i \in Iters : InvokeRead(i)
  \/ \E i \in Iters : IterResetOk(i)

SpecShape == InitShape /\ [][NextShape]_vars

\* ------------------------------------------------- claims
Records(i) == StreamRecs(iters[i].s)
NoReadFailed(i) == \A j \in 1..Len(calls[i]) : calls[i][j].err \in {"nil", "EOF"}

\* C1: over a stream of N records whose reads do not fail, after Init the
\* callable returns true on each of its first N invocations, delivering the
\* records in stream order, and returns false on invocation N+1.
C1_TrueNTimesThenFalse ==
  \A i \in Iters :
    NoReadFailed(i) =>
      \A j \in 1..Len(calls[i]) :
        /\ j <= Len(Records(i)) =>
             /\ calls[i][j].res = "true"
             /\ calls[i][j].elm = Records(i)[j]
        /\ j = Len(Records(i)) + 1 => calls[i][j].res = "false"

C1_Witness ==
  \E i \in Iters :
    /\ NoReadFailed(i)
    /\ Len(Records(i)) = 2
    /\ Records(i)[1] # Records(i)[2]
    /\ Len(calls[i]) = 3
    /\ calls[i][3].res = "false"

\* the last call on iterator i that returned true
LastOk(i) == calls[i][Len(calls[i])]
Delivered(i) == Len(calls[i]) > 0 /\ LastOk(i).res = "true"
IsFirstNonTime(types, k) ==
  types[k] # EventTimeType /\ \A m \in 1..(k - 1) : types[m] = EventTimeType
IsFirstKey(types, k) ==
  types[k] = "Key" /\ \A m \in 1..(k - 1) : types[m] # "Key"

\* C2 as stated: on a successful read, for every ordering of EventTime, Key and
\* Value slots, every EventTime slot receives the timestamp, the first Key-role
\* slot the primary value and every remaining non-time slot the secondary value.
C2_KeyRoleTakesPrimary ==
  \A i \in Iters :
    Delivered(i) =>
      \A k \in 1..Len(iters[i].types) :
        LastOk(i).out[k].val =
          IF iters[i].types[k] = EventTimeType THEN LastOk(i).elm.Timestamp
          ELSE IF IsFirstKey(iters[i].types, k) THEN LastOk(i).elm.Elm
          ELSE LastOk(i).elm.Elm2

\* C2 (amended): on a successful read, every EventTime slot receives the
\* timestamp, the first slot that is not an EventTime slot receives the primary
\* value converted to the slot's type, whatever its role, and every later
\* non-time slot receives the secondary value converted to its type.
C2_FirstNonTimeTakesPrimary ==
  \A i \in Iters :
    Delivered(i) =>
      \A k \in 1..Len(iters[i].types) :
        LastOk(i).out[k] =
          IF iters[i].types[k] = EventTimeType
          THEN ValueOf(EventTimeType, LastOk(i).elm.Timestamp)
          ELSE IF IsFirstNonTime(iters[i].types, k)
          THEN Convert(LastOk(i).elm.Elm, iters[i].types[k])
          ELSE Convert(LastOk(i).elm.Elm2, iters[i].types[k])

C2_Witness ==
  \E i \in Iters :
    /\ Delivered(i)
    /\ iters[i].types = <<EventTimeType, "Key", "Value">>
    /\ LastOk(i).elm = [Elm |-> "7", Elm2 |-> "x", Timestamp |-> "T1"]
    /\ LastOk(i).out = <<ValueOf(EventTimeType, "T1"), ValueOf("Key", "7"), ValueOf("Value", "x")>>

\* C5 as stated: Value or Reset on a Sequential Iterator before Init raises the
\* lifecycle-misuse panic; neither returns normally.
C5_ValueAndResetPanicBeforeInit ==
  \A i \in Iters :
    (~inited[i] /\ ret.it = i /\ ret.op \in {"Value", "Reset"}) => ret.res = "panic_init"

\* C5 (amended): before Init, Reset and an invocation of the callable raise the
\* lifecycle-misuse panic; Value checks nothing and returns the callable.
C5_ResetAndInvokePanicBeforeInit ==
  \A i \in Iters :
    (~inited[i] /\ ret.it = i) =>
      /\ ret.op \in {"Reset", "invoke"} => ret.res = "panic_init"
      /\ ret.op = "Value" => ret.res = "fn"

C5_Witness ==
  \E i \in Iters :
    ~inited[i] /\ ret.it = i /\ ret.op = "Reset" /\ ret.res = "panic_init"

\* the Stream opened last: the one a lone iterator holds, if it holds any
LastCursor == cursors[Len(cursors)]

\* C6 as stated: Reset on an iterator with an open cursor closes it, returns the
\* close error if closing fails, and leaves the iterator holding no cursor.
C6_ResetAlwaysClears ==
  (ret.op = "Reset" /\ ret.res # "panic_init") =>
    /\ ret.res \in {"nil", "err_close"}
    /\ iters[ret.it].cur = Nil

\* C6 (amended): Reset on an iterator holding a cursor calls Close on it; when
\* Close succeeds the cursor is closed, Reset returns nil and the iterator holds
\* no cursor; when Close fails Reset returns that error and the iterator still
\* holds the cursor.
C6_ResetClearsWhenCloseSucceeds ==
  (ret.op = "Reset" /\ ret.res # "panic_init") =>
    /\ ret.res \in {"nil", "err_close"}
    /\ ret.res = "nil" => (iters[ret.it].cur = Nil /\ ~LastCursor.open)
    /\ ret.res = "err_close" => iters[ret.it].cur = Len(cursors)

C6_Witness ==
  /\ ret.op = "Reset" /\ ret.res = "nil"
  /\ Len(calls[ret.it]) > 0
  /\ iters[ret.it].cur = Nil /\ ~LastCursor.open

OpenCursors == {c \in 1..Len(cursors) : cursors[c].open}

\* C7 as stated: in every state reachable by any sequence of Init, invocations
\* and Reset on one iterator, at most one cursor it opened is open.
C7_AtMostOneOpen == Cardinality(OpenCursors) <= 1

\* C7 (amended): the cursors the iterator opened that are open number at most
\* one plus the Init calls made while it still held a cursor (such an Init
\* replaces the held cursor without closing it); so at most one is open as long
\* as Init is only called on an iterator that holds no cursor.
C7_AtMostOneOpenPlusLeaks ==
  \A i \in Iters : Cardinality(OpenCursors) <= 1 + leaks[i]

C7_Witness ==
  /\ Len(cursors) = 2
  /\ leaks[1] = 0
  /\ ~cursors[1].open /\ cursors[2].open
  /\ iters[1].cur = 2

\* C8: when the cursor's read fails with an error other than end-of-stream the
\* callable panics with BrokenStreamError wrapping that error; it returns
\* neither false nor true for that call.
C8_ReadFailurePanics ==
  /\ \A i \in Iters : \A j \in 1..Len(calls[i]) :
       calls[i][j].err \notin {"nil", "EOF"} => calls[i][j].res = "panic_broken"
  /\ (ret.op = "invoke" /\ ret.res # "panic_init"
        /\ calls[ret.it][Len(calls[ret.it])].err \notin {"nil", "EOF"}) =>
       (ret.res = "panic_broken" /\ ret.wraps = calls[ret.it][Len(calls[ret.it])].err)

C8_Witness ==
  /\ ret.op = "invoke" /\ ret.res = "panic_broken" /\ ret.wraps = "io"
  /\ calls[ret.it][Len(calls[ret.it])].err = "io"

NumTrue(i) == Cardinality({j \in 1..Len(calls[i]) : calls[i][j].res = "true"})
InOrderThenFalse(i, stored) ==
  \A j \in 1..Len(calls[i]) :
    /\ j <= Len(stored) => (calls[i][j].res = "true" /\ calls[i][j].elm = stored[j])
    /\ j = Len(stored) + 1 => calls[i][j].res = "false"

\* C3: the iterators the Re-iterable Factory's callable hands out over one
\* Element Stream have independent cursors: each reads its own Stream opened on
\* the factory's stream, its position moves with its own reads alone, and it
\* observes the records in the original order from the first one, under every
\* interleaving and however far the others have progressed.
C3_IndependentCursors ==
  \A i \in Iters :
    iters[i].cur # Nil =>
      /\ \A k \in Iters : k # i => iters[k].cur # iters[i].cur
      /\ cursors[iters[i].cur].s = factory.s
      /\ cursors[iters[i].cur].pos = NumTrue(i)
      /\ NoReadFailed(i) => InOrderThenFalse(i, StreamRecs(factory.s))

C3_Witness ==
  /\ Len(iters) = 2
  /\ Len(StreamRecs(factory.s)) = 2
  /\ StreamRecs(factory.s)[1] # StreamRecs(factory.s)[2]
  /\ \A i \in Iters :
       /\ iters[i].cur # Nil /\ NoReadFailed(i)
       /\ Len(calls[i]) = 3 /\ calls[i][3].res = "false"

Accessing == {p \in Goroutines : pc[p] \in {"reg_writing", "is_reading", "mk_reading"}}

\* C4: in every interleaving of RegisterInput, IsInputRegistered and the lookup
\* of makeIter on different goroutines, each access to the registry map happens
\* while the accessing goroutine holds the registry lock, so no read of the map
\* overlaps a write of it.
C4_EveryAccessUnderLock ==
  /\ \A p \in Accessing : inputsMu = p
  /\ ~(Writing # {} /\ Reading # {})

\* C9: after constructor A and then constructor B were registered for type T,
\* every subsequent lookup of T resolves to B: IsInputRegistered(T) is true and
\* makeIter(T, s) returns B's value; what is registered for other types does not
\* change it. (A lookup is subsequent when no registration is running while it
\* reads the map.)
C9_LastRegistrationWins ==
  \A p \in Goroutines :
    /\ (pc[p] = "is_done" /\ seen[p].settled) =>
         (seen[p].val # "none") = (seen[p].expect # "none")
    /\ (pc[p] \in {"mk_unlock", "mk_make"} /\ seen[p].settled) =>
         /\ seen[p].val = seen[p].expect
         /\ seen[p].expect # "none" =>
              /\ MakeIterResult(call[p].t, "s", seen[p].val).kind = "custom"
              /\ MakeIterResult(call[p].t, "s", seen[p].val).maker = seen[p].expect

C9_Witness ==
  \E t \in RegTypes, p \in Goroutines, q \in Goroutines :
    /\ lastDone[t] = <<"A", "B">>
    /\ pc[p] = "is_done" /\ call[p].t = t /\ seen[p].settled /\ seen[p].val = "B"
    /\ pc[q] = "mk_make" /\ call[q].t = t /\ seen[q].settled /\ seen[q].val = "B"
    /\ \E u \in RegTypes : u # t /\ inputs[u] = "A"

\* the records state holds for the (window, key) pair
Stored(key) == IF key \in DOMAIN recs THEN recs[key] ELSE <<>>

\* C10: a Keyed Multimap lookup of a key present in state returns an iterator
\* that yields exactly the records stored for that (window, key) pair, in order,
\* and then false; a lookup of an absent key returns an iterator whose first
\* invocation returns false; the lookup itself returns a callable, never an
\* error. (The stream the adapter returned opens and its reads do not fail.)
C10_KeyedLookup ==
  /\ (ret.op = "multiMap.invoke" /\ ret.it # Nil) => ret.res = "fn"
  /\ \A i \in Iters :
       (iters[i].cur # Nil /\ NoReadFailed(i)) =>
         /\ InOrderThenFalse(i, Stored(asked[i]))
         /\ cursors[iters[i].cur].pos = NumTrue(i)

C10_Witness ==
  \E i \in Iters, k \in Iters :
    /\ asked[i] = "k1" /\ asked[k] = "k2"
    /\ iters[i].cur # Nil /\ iters[k].cur # Nil
    /\ NoReadFailed(i) /\ NoReadFailed(k)
    /\ Len(Stored("k1")) = 2
    /\ Len(calls[i]) = 3 /\ calls[i][3].res = "false"
    /\ Len(calls[k]) = 1 /\ calls[k][1].res = "false"

\* C11: the lifecycle Uninitialized -> Initialized -> Reset -> Initialized.
\* While the iterator holds no Stream (before Init, and again after a
\* successful Reset) an invocation of the callable raises the lifecycle-misuse
\* panic. A successful Init always opens a new Stream at position 0, never the
\* closed one, and the invocations after it deliver the records from the first
\* one on, the Stream's position being the number of records delivered.
C11_ResetThenInitStartsOver ==
  \A i \in Iters :
    /\ (ret.op = "invoke" /\ ret.it = i /\ iters[i].cur = Nil) => ret.res = "panic_init"
    /\ (ret.op = "Init" /\ ret.it = i /\ ret.res = "nil") =>
         /\ iters[i].cur = Len(cursors)
         /\ cursors[iters[i].cur] = OpenStream(iters[i].s)
    /\ (iters[i].cur # Nil /\ NoReadFailed(i)) =>
         /\ cursors[iters[i].cur].pos = NumTrue(i)
         /\ InOrderThenFalse(i, Records(i))

C11_Witness ==
  \E i \in Iters :
    /\ Len(cursors) = 2 /\ leaks[i] = 0
    /\ ~cursors[1].open /\ cursors[1].pos = 1
    /\ iters[i].cur = 2
    /\ Len(Records(i)) = 2 /\ Records(i)[1] # Records(i)[2]
    /\ Len(calls[i]) = 1 /\ calls[i][1].res = "true"
    /\ calls[i][1].elm = Records(i)[1]

C13_EOFKeepsArgs ==
  [][\A i \in Iters :
       (ret'.op = "invoke" /\ ret'.it = i /\ ret'.res = "false") =>
         /\ out'[i] = out[i]
         /\ LastOk(i)' = [LastOk(i)' EXCEPT !.out = out[i]]
         /\ LastOk(i)'.err = "EOF"]_vars

C13_Witness ==
  \E i \in Iters :
    /\ ret = [op |-> "invoke", it |-> i, res |-> "false", wraps |-> "nil"]
    /\ Len(calls[i]) = 2
    /\ calls[i][1].res = "true"
    /\ out[i] = calls[i][1].out
    /\ \A k \in 1..Len(out[i]) : out[i][k] # Unset

\* C14: an illegal function type is fatal at construction: makeIter (for a type
\* with no registered maker), makeReIter and makeMultiMap panic and return no
\* value, every value that was constructed has a legal shape, and no Init,
\* Value or invocation of a constructed value raises the illegal-type panic.
C14_IllegalTypePanicsAtConstruction ==
  /\ ret.res = "panic_illegal" =>
       /\ ret.op \in {"makeIter", "makeReIter", "makeMultiMap"}
       /\ ret.it = Nil
       /\ NothingMade
  /\ factory.kind = "reIter" => IsReIter(factory.t)
  /\ factory.kind = "multiMap" => UnfoldMultiMap(factory.t).ok
  /\ \A i \in Iters : iters[i].types \in Shapes

C14_Witness ==
  /\ ret = [op |-> "makeReIter", it |-> Nil, res |-> "panic_illegal", wraps |-> "nil"]
  /\ NothingMade
  /\ Lookup(inputs, IllegalType) = "none"

\* C15: the Re-iterable Factory's own Init and Reset return nil and open or
\* close no Stream, whatever Streams its iterators hold; an invocation of the
\* factory's callable that returns an iterator makes one new iterator with one
\* Open call, which adds exactly one Stream on the factory's ReStream when it
\* succeeds, and leaves every Stream opened before as it was.
C15_FactoryInitResetAreNoOps ==
  [][/\ ret'.op \in {"reIter.Init", "reIter.Reset"} =>
          /\ ret'.res = "nil"
          /\ cursors' = cursors
          /\ iters' = iters
     /\ (ret'.op = "reIter.invoke" /\ ret'.res = "fn") =>
          /\ ret'.it = Len(iters) + 1
          /\ Len(iters') = Len(iters) + 1
          /\ SubSeq(iters', 1, Len(iters)) = iters
          /\ SubSeq(cursors', 1, Len(cursors)) = cursors
          /\ iters'[ret'.it].cur \in {Nil, Len(cursors) + 1}
          /\ iters'[ret'.it].cur = Nil => cursors' = cursors
          /\ iters'[ret'.it].cur # Nil =>
               cursors' = Append(cursors, OpenStream(factory.s))]_vars

C15_Witness ==
  /\ ret.op = "reIter.Reset"
  /\ Len(iters) = 2
  /\ \A i \in Iters :
       /\ iters[i].cur = i
       /\ cursors[i].open
  /\ cursors[1].pos = 1

\* C16: makeIter(T, s) returns the result of the maker that the lookup, made
\* under the lock, found registered for exactly T, without running the shape
\* check (so also for a type the check would reject); it builds the generic
\* iterValue, or panics for an illegal type, only when the lookup found none.
C16_RegisteredMakerReplacesGeneric ==
  \A p \in Goroutines :
    /\ pc[p] = "mk_unlock" => seen[p].val = Lookup(inputs, call[p].t)
    /\ pc[p] \in {"mk_unlock", "mk_make"} =>
         LET r == MakeIterResult(call[p].t, "s", seen[p].val) IN
         /\ seen[p].val # "none" => (r.kind = "custom" /\ r.maker = seen[p].val)
         /\ seen[p].val = "none" =>
              IF call[p].t.kind = "iter"
              THEN r.kind = "iterValue" /\ r.types = call[p].t.types /\ r.s = "s"
              ELSE r.kind = "panic_illegal"

C16_Witness ==
  \E p \in Goroutines, q \in Goroutines :
    /\ pc[p] = "mk_make" /\ call[p].t = IllegalType /\ seen[p].val = "A"
    /\ inputs[IterType(<<"Value">>)] = "none"
    /\ pc[q] = "mk_make" /\ call[q].t = IterType(<<"Value">>) /\ seen[q].val = "none"

\* C20: makeIter has released the registry lock when it runs the maker: the
\* goroutine running a maker never holds the lock, so a RegisterInput or
\* makeIter called by the maker never waits for a lock its own goroutine holds,
\* and a makeIter of another goroutine waiting for the lock while a maker runs
\* finds it free.
C20_LockFreeWhileMakerRuns ==
  \A p \in Goroutines :
    /\ pc[p] \in {"mk_make", "mk_ret"} =>
         /\ inputsMu # p
         /\ \A q \in Goroutines \ {p} : pc[q] \in {"mk_lock", "reg_lock"} => inputsMu = "free"
    /\ (call[p].fn \in {"maker.RegisterInput", "maker.makeIter"}
          /\ pc[p] \in {"reg_lock", "mk_lock"}) => inputsMu # p

C20_Witness ==
  \E p \in Goroutines, q \in Goroutines :
    /\ call[p].fn = "maker.RegisterInput" /\ pc[p] = "reg_unlock" /\ inputsMu = p
    /\ call[q].fn = "maker.makeIter" /\ pc[q] = "mk_make" /\ seen[q].val # "none"

\* C17: every Keyed Multimap lookup asks the adapter once, for the given key,
\* and wraps the stream it gets in a new iterValue with a Stream of its own: no
\* two iterators handed out, for the same key or for different keys, share a
\* Stream, each Stream's position moves with its own iterator's reads alone,
\* and the accessor is the same after the lookup as before it.
C17_LookupsAreIndependent ==
  /\ ret.op = "multiMap.invoke" => adapterAsks = 1
  /\ factory = [kind |-> "multiMap", t |-> MultiMapType(<<"Value">>), s |-> "w"]
  /\ \A i \in Iters :
       iters[i].cur # Nil =>
         /\ \A k \in Iters : (k # i /\ iters[k].cur # Nil) => iters[k].cur # iters[i].cur
         /\ cursors[iters[i].cur].s = asked[i]
         /\ cursors[iters[i].cur].pos = NumTrue(i)

C17_Witness ==
  \E i \in Iters, k \in Iters :
    /\ i < k
    /\ asked[i] = "k1" /\ asked[k] = "k1"
    /\ iters[i].cur # Nil /\ iters[k].cur # Nil
    /\ cursors[iters[i].cur].pos = 2 /\ cursors[iters[k].cur].pos = 0
    /\ ret.op = "multiMap.invoke" /\ ret.it = k

\* C18: every callable handed out by the Re-iterable Factory's callable (and
\* likewise by the Keyed Multimap callable) is backed by an iterator whose Init
\* succeeded: it holds a Stream, and its invocation never raises the
\* lifecycle-misuse panic.
C18_SpawnedIteratorIsInitialized ==
  /\ (ret.op \in {"reIter.invoke", "multiMap.invoke"} /\ ret.res = "fn") =>
       iters[ret.it].cur # Nil
  /\ ret.op = "invoke" => ret.res # "panic_init"

\* C19: a Keyed Multimap lookup whose NewKeyedIterable call returned an error
\* never goes on to makeIter and iter.Init() over the stream returned with the
\* error, that is, never ends in Open called on the nil stream.
C19_AdapterErrorIsSurfaced ==
  ~(ret.op = "multiMap.invoke" /\ adapterAsks = 1 /\ ret.res = "panic_nil_stream")

====
